---- MODULE Spec2Model ----
(***************************************************************************)
(* The agent tool-calling loop of agents-course-v2.                        *)
(*                                                                         *)
(* The repository carries several versions of runAgent and executeTool.    *)
(* The variable `variant` selects the one a behaviour runs:                *)
(*   "run"   src/agent/run.ts              (the SDK executes the tools)    *)
(*   "loop"  04-The-Agent-Loop.md 253-356  (the loop calls executeTool)    *)
(*   "hitl"  the same loop with the approval block of 09-HITL.md 139-169   *)
(*   "first" unnamed/part_006 109-131 with executeTool of unnamed/part_007 *)
(* Texts are sequences of tokens, += is concatenation.                     *)
(***************************************************************************)
EXTENDS Integers, Sequences, FiniteSets, TLC

\* ------------------------------------------------------------------ bounds
MaxInvocations == 4
MaxCalls == 3
MaxDeltas == 1
\* the context window of the model, in tokens
ContextWindow == 5
\* text increments where only the stream is looked at
MaxStreamDeltas == 3
\* evals: tool calls of a run, and entries of a list of a target
MaxStepCalls == 3
MaxTargetLen == 2
\* error threshold: tool runs of a loop
MaxToolRuns == 7

\* ------------------------------------------------------- program constants
Variants == {"run", "loop", "hitl", "first"}
FinishReasons == {"stop", "tool-calls", "length", "content-filter"}

SYSTEM_PROMPT == <<"SYSTEM_PROMPT">>
APOLOGY == <<"I apologize, but I wasn't able to generate a response. Could you please try rephrasing your message?">>
NoOutputMessage == "No output generated"
OtherMessage == "disk full"

\* the tool registry: name -> descriptor; execute = TRUE when the descriptor
\* has a local executor. "frobnicate" is a name absent from the registry.
tools == [readFile |-> [execute |-> TRUE], webSearch |-> [execute |-> FALSE]]
ToolNames == {"readFile", "webSearch", "frobnicate"}

\* the registry of the tool-calling lesson, which the runAgent of part_006
\* and the executeTool of part_007 belong to: one local tool
lessonTools == [getDateTime |-> [execute |-> TRUE]]
LessonToolNames == {"getDateTime", "frobnicate"}

\* the registry a variant imports
RegistryOf(v) == IF v = "first" THEN lessonTools ELSE tools

\* ------------------------------------------------------------------ helpers
Range(s) == {s[i] : i \in 1..Len(s)}
Contains(s, x) == x \in Range(s)

RECURSIVE Flatten(_)
Flatten(ss) == IF ss = <<>> THEN <<>> ELSE Head(ss) \o Flatten(Tail(ss))

\* ----------------------------------------------------------------- messages
TextPart(t) == [type |-> "text", toolCallId |-> 0, toolName |-> "", value |-> t]
ToolCallPart(tc) ==
    [type |-> "tool-call", toolCallId |-> tc.toolCallId, toolName |-> tc.toolName, value |-> <<>>]
\* a tool-result that carries the empty id executeTool hands to the executor
ToolResultPart_emptyId(tc, result) ==
    [type |-> "tool-result", toolCallId |-> 0, toolName |-> tc.toolName, value |-> result]
ToolResultPart(tc, result) ==
    [type |-> "tool-result", toolCallId |-> tc.toolCallId, toolName |-> tc.toolName, value |-> result]
Message(role, content) == [role |-> role, content |-> content]

\* all content parts of a message sequence, in order
Parts(msgs) == Flatten([i \in 1..Len(msgs) |-> msgs[i].content])

VARIABLES
    variant,             \* which runAgent of the repository runs
    pc,                  \* position of runAgent
    conversationHistory, \* the caller's history argument
    userMessage,         \* the caller's userMessage argument
    messages,            \* const messages: ModelMessage[]
    fullResponse,        \* let fullResponse
    currentText,         \* let currentText
    streamError,         \* let streamError: "none" or the error's message
    toolCalls,           \* const toolCalls: ToolCallInfo[] (loop, hitl, first)
    tcIdx,               \* position of the for..of / forEach over toolCalls
    rejected,            \* let rejected (hitl)
    finishReason,        \* await result.finishReason
    respCalls,           \* generation capability: tool calls of this response
    respResults,         \* generation capability: results the SDK produced
    nextId,              \* generation capability: next fresh toolCallId
    invocations,         \* number of streamText / generateText calls so far
    deltas,              \* number of text increments streamed so far
    genOutstanding,      \* generation requests whose stream is not finished
    running,             \* toolCallIds whose executeTool has not settled
    approvalPending,     \* toolCallIds waiting for an approval decision
    trace,               \* everything the loop did, in order
    returned,            \* the value runAgent returned
    thrown,              \* the error runAgent threw ("none" if none)
    executor,            \* evals: the executor that runs the task
    steps,               \* evals: the tool names of result.steps, step by step
    target,              \* evals: the target of the data point
    output,              \* evals: what the executor returned
    score,               \* evals: the evaluator that ran and its score
    consecutiveErrors,   \* error threshold: let consecutiveErrors
    toolRuns,            \* error threshold: toolFailed of every tool run so far
    stopped              \* error threshold: the guard has left the loop

vars == <<variant, pc, conversationHistory, userMessage, messages, fullResponse,
          currentText, streamError, toolCalls, tcIdx, rejected, finishReason,
          respCalls, respResults, nextId, invocations, deltas, genOutstanding,
          running, approvalPending, trace, returned, thrown,
          executor, steps, target, output, score,
          consecutiveErrors, toolRuns, stopped>>

\* the variables of the agent loop, of the evals and of the error threshold
agentVars == <<variant, pc, conversationHistory, userMessage, messages, fullResponse,
               currentText, streamError, toolCalls, tcIdx, rejected, finishReason,
               respCalls, respResults, nextId, invocations, deltas, genOutstanding,
               running, approvalPending, trace, returned, thrown>>
evalVars == <<executor, steps, target, output, score>>
guardVars == <<consecutiveErrors, toolRuns, stopped>>

Event(ev, id, name, val) == [ev |-> ev, id |-> id, name |-> name, val |-> val]

\* ------------------------------------------------------- values of the evals
\* an optional list of a target: absent, or present with a value
Absent == [defined |-> FALSE, value |-> <<>>]
Present(list) == [defined |-> TRUE, value |-> list]

\* the elements of output.toolsUsed: a tool name, or a Set object
NameValue(name) == [kind |-> "name", name |-> name, members |-> {}]
SetValue(members) == [kind |-> "set", name |-> "", members |-> members]

\* numbers: n / d with d > 0
Frac(n, d) == [n |-> n, d |-> d]
Zero == Frac(0, 1)
One == Frac(1, 1)
Plus(a, b) == Frac(a.n * b.d + b.n * a.d, a.d * b.d)
Times(a, b) == Frac(a.n * b.n, a.d * b.d)
DividedBy(a, b) == Frac(a.n * b.d, a.d * b.n)
SameNumber(a, b) == a.n * b.d = b.n * a.d

NoTarget == [expectedTools |-> Absent, forbiddenTools |-> Absent, expectedToolOrder |-> Absent]
NoOutput == [kind |-> "none", toolNames |-> <<>>, selectedAny |-> FALSE,
             toolsUsed |-> <<>>, toolCallOrder |-> <<>>]
NoScore == [evaluator |-> "none", value |-> Zero]

\* no eval is running
NoEval ==
    /\ executor = "none"
    /\ steps = <<>>
    /\ target = NoTarget
    /\ output = NoOutput
    /\ score = NoScore

\* 04-The-Agent-Loop.md 196: let consecutiveErrors = 0, no tool has run yet
NoGuard ==
    /\ consecutiveErrors = 0
    /\ toolRuns = <<>>
    /\ stopped = FALSE

\* -------------------------------------------------------------- executeTool
\* how a call of executeTool ends: with a text or with an exception;
\* invoked tells whether it called the tool's execute function
Return(text, invoked) == [throws |-> FALSE, value |-> text, invoked |-> invoked]
Throw(message, invoked) == [throws |-> TRUE, value |-> <<message>>, invoked |-> invoked]

\* what a local executor hands back; String(result) keeps the text
ToolOutput(name) == <<"output of ", name>>

\* an executeTool without the check for a missing execute function
executeTool_noProviderCheck(name, executorThrows) ==
    IF name \notin DOMAIN tools
    THEN Return(<<"Unknown tool: ", name>>, FALSE)
    ELSE IF ~tools[name].execute
    THEN Throw("TypeError: execute is not a function", FALSE)
    ELSE IF executorThrows
    THEN Throw(OtherMessage, TRUE)
    ELSE Return(ToolOutput(name), TRUE)

\* src/agent/executeTool.ts: executorThrows is the behaviour of the tool's own
\* execute function for this call (it is only consulted when it is invoked)
executeTool(name, executorThrows) ==
    IF name \notin DOMAIN tools
    THEN Return(<<"Unknown tool: ", name>>, FALSE)
    ELSE IF ~tools[name].execute
    THEN Return(<<"Provider tool ", name, " - executed by model provider">>, FALSE)
    ELSE IF executorThrows
    THEN Throw(OtherMessage, TRUE)
    ELSE Return(ToolOutput(name), TRUE)

\* unnamed/part_007: the earlier executeTool, used by the runAgent of
\* part_006. It throws for a name the registry lacks, and calls execute
\* (tool.execute!) without looking whether the descriptor has one.
executeTool_part007(name, executorThrows) ==
    IF name \notin DOMAIN lessonTools
    THEN Throw("Sorry, this tool isn't ready yet, use something else or better yet, let the user know and ask them what you should do next.", FALSE)
    ELSE IF ~lessonTools[name].execute
    THEN Throw("TypeError: execute is not a function", FALSE)
    ELSE IF executorThrows
    THEN Throw(OtherMessage, TRUE)
    ELSE Return(ToolOutput(name), TRUE)

\* the executeTool a variant imports
ExecuteToolOf(v, name, executorThrows) ==
    IF v = "first"
    THEN executeTool_part007(name, executorThrows)
    ELSE executeTool(name, executorThrows)

\* ------------------------------------------------------------------- set-up
\* the history a caller hands in: the return value of two earlier turns, the
\* first of which ended with a response without text
Histories ==
    { << Message("user", <<TextPart(<<"first question">>)>>),
         Message("assistant", <<>>),
         Message("user", <<TextPart(<<"second question">>)>>),
         Message("assistant", <<TextPart(<<"second answer">>)>>) >> }

\* src/agent/system/filterMessages.ts is not part of the sources at hand: it
\* keeps, in order, the messages that have content
filterCompatibleMessages(history) == SelectSeq(history, LAMBDA m : m.content # <<>>)

\* run.ts 23-27
InitialMessages(history, text) ==
    <<Message("system", <<TextPart(SYSTEM_PROMPT)>>)>>
        \o filterCompatibleMessages(history)
        \o <<Message("user", <<TextPart(text)>>)>>

Init ==
    /\ variant \in Variants
    /\ conversationHistory \in Histories
    /\ userMessage = <<"question">>
    /\ pc = "call"
    /\ messages = IF variant = "first" THEN <<>>
                  ELSE InitialMessages(conversationHistory, userMessage)
    /\ fullResponse = <<>>
    /\ currentText = <<>>
    /\ streamError = "none"
    /\ toolCalls = <<>>
    /\ tcIdx = 1
    /\ rejected = FALSE
    /\ finishReason = "none"
    /\ respCalls = <<>>
    /\ respResults = <<>>
    /\ nextId = 1
    /\ invocations = 0
    /\ deltas = 0
    /\ genOutstanding = 0
    /\ running = {}
    /\ approvalPending = {}
    /\ trace = <<>>
    /\ returned = <<>>
    /\ thrown = "none"
    /\ NoEval
    /\ NoGuard

\* ------------------------------------------------- the generation capability
\* result.response: the assistant message of this response (its text, then
\* its tool-call requests) and, when the SDK ran tools itself, one tool
\* message with their results (run.ts 98-101)
ResponseMessages(text, calls, results) ==
    <<Message("assistant",
              (IF text = <<>> THEN <<>> ELSE <<TextPart(text)>>)
                  \o [i \in 1..Len(calls) |-> ToolCallPart(calls[i])])>>
        \o (IF results = <<>> THEN <<>>
            ELSE <<Message("tool",
                           [i \in 1..Len(results) |->
                               ToolResultPart(results[i], ToolOutput(results[i].toolName))])>>)

\* ---------------------------------------------------- runAgent, the stream
\* run.ts 32-43 / 04-The-Agent-Loop.md 270-282: streamText is called with the
\* messages so far; toolCalls, currentText and streamError start afresh
StreamText ==
    /\ pc = "call"
    /\ variant \in {"run", "loop", "hitl"}
    /\ invocations < MaxInvocations
    /\ invocations' = invocations + 1
    /\ genOutstanding' = genOutstanding + 1
    /\ toolCalls' = <<>>
    /\ currentText' = <<>>
    /\ streamError' = "none"
    /\ finishReason' = "none"
    /\ respCalls' = <<>>
    /\ respResults' = <<>>
    /\ trace' = Append(trace, Event("streamText", invocations + 1, "", <<>>))
    /\ pc' = "stream"
    /\ UNCHANGED <<evalVars, guardVars>>
    /\ UNCHANGED <<variant, conversationHistory, userMessage, messages, fullResponse,
                   tcIdx, rejected, nextId, deltas, running, approvalPending,
                   returned, thrown>>

\* an accumulation that puts the new increment in front
Accumulate_prepend(text, chunk) == chunk \o text

\* run.ts 48: currentText += chunk.text
Accumulate(text, chunk) == text \o chunk

\* run.ts 47-52: a text-delta chunk; at most limit increments are streamed
TextDelta(limit) ==
    /\ pc = "stream"
    /\ respCalls = <<>>
    /\ deltas < limit
    /\ LET text == <<ToString(deltas + 1)>> IN
        /\ currentText' = Accumulate(currentText, text)
        /\ trace' = Append(trace, Event("onToken", 0, "", text))
    /\ deltas' = deltas + 1
    /\ UNCHANGED <<evalVars, guardVars>>
    /\ UNCHANGED <<variant, pc, conversationHistory, userMessage, messages, fullResponse,
                   streamError, toolCalls, tcIdx, rejected, finishReason, respCalls,
                   respResults, nextId, invocations, genOutstanding, running,
                   approvalPending, returned, thrown>>

OnTextDelta ==
    /\ deltas < MaxDeltas
    /\ TextDelta(MaxDeltas)

\* the same handler under a stream of more increments
OnTextDeltaOfStream ==
    /\ deltas < MaxStreamDeltas
    /\ TextDelta(MaxStreamDeltas)

\* what the tool-call chunk handler does with the chunk: the loop of
\* 04-The-Agent-Loop.md 291-299 collects it, run.ts 54-58 only notifies
CollectToolCall(v, calls, tc) == IF v = "run" THEN calls ELSE Append(calls, tc)

\* the tool names the model asks for: any name where the loop dispatches on
\* it; one local tool where the SDK runs the tools and the loop never looks
\* at the name (run.ts 54-58); the registered tools where the approval block
\* stands in front of the same dispatch
RequestableNames(v) ==
    IF v = "run" THEN {"readFile"}
    ELSE IF v = "hitl" THEN DOMAIN tools
    ELSE ToolNames

\* run.ts 54-58 / 04-The-Agent-Loop.md 291-299: a tool-call chunk
OnToolCall ==
    /\ pc = "stream"
    /\ respResults = <<>>
    /\ nextId <= MaxCalls
    /\ \E name \in RequestableNames(variant) :
        LET tc == [toolCallId |-> nextId, toolName |-> name] IN
        /\ respCalls' = Append(respCalls, tc)
        /\ toolCalls' = CollectToolCall(variant, toolCalls, tc)
        /\ trace' = Append(trace, Event("onToolCallStart", nextId, name, <<>>))
    /\ nextId' = nextId + 1
    /\ UNCHANGED <<evalVars, guardVars>>
    /\ UNCHANGED <<variant, pc, conversationHistory, userMessage, messages, fullResponse,
                   currentText, streamError, tcIdx, rejected, finishReason, respResults,
                   invocations, deltas, genOutstanding, running, approvalPending,
                   returned, thrown>>

\* run.ts 60-69: a tool-result chunk, sent when the SDK ran the tool itself
OnToolResult ==
    /\ pc = "stream"
    /\ variant = "run"
    /\ Len(respResults) < Len(respCalls)
    /\ LET tc == respCalls[Len(respResults) + 1] IN
        /\ respResults' = Append(respResults, tc)
        /\ trace' = Append(trace, Event("onToolCallEnd", tc.toolCallId, tc.toolName,
                                        ToolOutput(tc.toolName)))
    /\ UNCHANGED <<evalVars, guardVars>>
    /\ UNCHANGED <<variant, pc, conversationHistory, userMessage, messages, fullResponse,
                   currentText, streamError, toolCalls, tcIdx, rejected, finishReason,
                   respCalls, nextId, invocations, deltas, genOutstanding, running,
                   approvalPending, returned, thrown>>

\* run.ts 113 filters the system message out of the return value; the loop
\* of 04-The-Agent-Loop.md 355 returns messages as they are
ReturnValue(v, msgs) ==
    IF v = "run" THEN SelectSeq(msgs, LAMBDA m : m.role # "system") ELSE msgs

\* an end of runAgent that returns without telling the caller's UI
Complete_withoutCallback(tr, full, msgs) ==
    /\ trace' = Append(tr, Event("return", 0, "", <<>>))
    /\ returned' = ReturnValue(variant, msgs)
    /\ pc' = "done"

\* run.ts 108-113: what follows the while loop: onComplete, then return.
\* Nothing suspends runAgent between a break and its return.
Complete(tr, full, msgs) ==
    /\ trace' = Append(Append(tr, Event("onComplete", 0, "", full)),
                       Event("return", 0, "", <<>>))
    /\ returned' = ReturnValue(variant, msgs)
    /\ pc' = "done"

\* run.ts 76-81: the condition under which the catch block throws again
Rethrows(text, message) == text = <<>> /\ message # NoOutputMessage

\* a loop that only looks at the collected tool calls
LeavesLoop_ignoresFinishReason(v, fr, calls) ==
    IF v = "run" THEN fr # "tool-calls" ELSE calls = <<>>

\* run.ts 103 / 04-The-Agent-Loop.md 326: the condition that ends the loop
\* after a response
LeavesLoop(v, fr, calls) ==
    IF v = "run" THEN fr # "tool-calls" ELSE fr # "tool-calls" \/ calls = <<>>

\* a runAgent that works on the caller's array itself: what it pushes
\* arrives in the caller's history
HistoryAfterPush_shared(history, pushed) == history \o pushed

\* run.ts 21-27 / 04-The-Agent-Loop.md 259-265: messages is an array of its
\* own, made from a copy of the filtered history, so what runAgent pushes
\* (run.ts 101) does not arrive in the caller's conversationHistory
HistoryAfterPush(history, pushed) == history

\* the messages a step has put behind those that were there
Pushed(before, after) == SubSeq(after, Len(before) + 1, Len(after))

\* a push that puts the new messages in the place of the old ones
Push_replace(msgs, new) == new

\* run.ts 101 / 04-The-Agent-Loop.md 333, 339: messages.push(...)
Push(msgs, new) == msgs \o new

\* a fallback that is taken after every stream error, text or no text
UsesFallback_onAnyError(err, text) == err # "none"

\* run.ts 87: if (streamError && !currentText)
UsesFallback(err, text) == err # "none" /\ text = <<>>

\* the tool calls result.response carries: where the SDK runs the tools, the
\* response holds a tool call together with its result (run.ts 98-99), so a
\* call whose result never came is not part of it; where the loop runs them,
\* all calls of the response
RespondedCalls(v, calls, results) ==
    IF v = "run" THEN SubSeq(calls, 1, Len(results)) ELSE calls

\* run.ts 84-105 / 04-The-Agent-Loop.md 313-333: the rest of the loop body,
\* once the for await loop is over with streamError = err and the
\* response's finish reason is fr
AfterStream(err, fr) ==
    IF UsesFallback(err, currentText)
    THEN \* the fallback (run.ts 87-94)
         /\ fullResponse' = APOLOGY
         /\ Complete(Append(trace, Event("onToken", 0, "", APOLOGY)), APOLOGY, messages)
         /\ UNCHANGED <<messages, tcIdx, finishReason>>
    ELSE LET msgs == Push(messages,
                          ResponseMessages(currentText,
                                           RespondedCalls(variant, respCalls, respResults),
                                           respResults))
             full == fullResponse \o currentText
             tr == Append(Append(trace, Event("finishReason", invocations, fr, <<>>)),
                          Event("pushResponse", invocations, "", <<>>))
         IN
         /\ fullResponse' = full
         /\ finishReason' = fr
         /\ messages' = msgs
         /\ tcIdx' = 1
         /\ IF LeavesLoop(variant, fr, toolCalls)
            THEN Complete(tr, full, msgs)
            ELSE /\ trace' = tr
                 /\ pc' = IF variant = "run" THEN "call" ELSE "tools"
                 /\ UNCHANGED returned

\* run.ts 46-70, 84-105: the for await loop ends without an error; where the
\* SDK runs the tools, it has streamed the result of every tool call by then
\* (run.ts 98-99)
StreamEnd ==
    /\ pc = "stream"
    /\ variant = "run" => Len(respResults) = Len(respCalls)
    /\ \E fr \in FinishReasons : AfterStream("none", fr)
    /\ conversationHistory' = HistoryAfterPush(conversationHistory, Pushed(messages, messages'))
    /\ genOutstanding' = genOutstanding - 1
    /\ UNCHANGED <<evalVars, guardVars>>
    /\ UNCHANGED <<variant, userMessage, currentText, streamError,
                   toolCalls, rejected, respCalls, respResults, nextId, invocations,
                   deltas, running, approvalPending, thrown>>

\* the messages a stream error can carry; the catch block reads the message
\* only when no text has arrived (run.ts 76-79), so one message stands for
\* all of them once there is text
StreamErrorMessages(text) ==
    IF text = <<>> THEN {NoOutputMessage, OtherMessage} ELSE {OtherMessage}

\* run.ts 71-105: the stream throws; the error is kept in streamError and is
\* thrown again when no text arrived and it is not the SDK's "no output" error
StreamError ==
    /\ pc = "stream"
    /\ \E message \in StreamErrorMessages(currentText) :
        /\ streamError' = message
        /\ IF Rethrows(currentText, message)
           THEN /\ pc' = "thrown"
                /\ thrown' = message
                /\ trace' = Append(trace, Event("throw", 0, message, <<>>))
                /\ UNCHANGED <<messages, fullResponse, tcIdx, finishReason, returned>>
           ELSE /\ \E fr \in FinishReasons : AfterStream(message, fr)
                /\ UNCHANGED thrown
    /\ conversationHistory' = HistoryAfterPush(conversationHistory, Pushed(messages, messages'))
    /\ genOutstanding' = genOutstanding - 1
    /\ UNCHANGED <<evalVars, guardVars>>
    /\ UNCHANGED <<variant, userMessage, currentText, toolCalls,
                   rejected, respCalls, respResults, nextId, invocations, deltas,
                   running, approvalPending>>

\* ------------------------------------------------ runAgent, the tool calls
\* the events of a call of executeTool: the call itself and, when the
\* registry holds a local executor for the name, the start of that executor
StartEvents(v, tc) ==
    <<Event("execStart", tc.toolCallId, tc.toolName, <<>>)>>
        \o (IF ExecuteToolOf(v, tc.toolName, FALSE).invoked
            THEN <<Event("executorInvoked", tc.toolCallId, tc.toolName, <<>>)>>
            ELSE <<>>)

\* the events of the end of a call of executeTool: the exception of the
\* tool's execute function if it was called and threw, then the exception or
\* the text executeTool itself ends with
SettleEvents(tc, r, executorThrows) ==
    (IF r.invoked /\ executorThrows
     THEN <<Event("executorThrew", tc.toolCallId, tc.toolName, <<OtherMessage>>)>>
     ELSE <<>>)
        \o <<Event(IF r.throws THEN "execThrow" ELSE "execEnd",
                   tc.toolCallId, tc.toolName, r.value)>>

\* a loop without the check of rejected after the for..of loop
OuterBreaks_never(rej) == FALSE

\* 09-HITL.md 166-168: if (rejected) break, after the for..of loop
OuterBreaks(rej) == rej

\* the approval loop with the plain executeTool call left in
ExecStart_ungated ==
    /\ pc = "tools"
    /\ variant \in {"loop", "hitl"}
    /\ tcIdx <= Len(toolCalls)
    /\ LET tc == toolCalls[tcIdx] IN
        /\ running' = running \cup {tc.toolCallId}
        /\ trace' = trace \o StartEvents(variant, tc)
    /\ pc' = "exec"
    /\ UNCHANGED <<evalVars, guardVars>>
    /\ UNCHANGED <<variant, conversationHistory, userMessage, messages, fullResponse,
                   currentText, streamError, toolCalls, tcIdx, rejected, finishReason,
                   respCalls, respResults, nextId, invocations, deltas, genOutstanding,
                   approvalPending, returned, thrown>>

\* 04-The-Agent-Loop.md 335-336: the for..of loop calls executeTool for the
\* next tool call and waits for it
ExecStart ==
    /\ pc = "tools"
    /\ variant = "loop"
    /\ tcIdx <= Len(toolCalls)
    /\ LET tc == toolCalls[tcIdx] IN
        /\ running' = running \cup {tc.toolCallId}
        /\ trace' = trace \o StartEvents(variant, tc)
    /\ pc' = "exec"
    /\ UNCHANGED <<evalVars, guardVars>>
    /\ UNCHANGED <<variant, conversationHistory, userMessage, messages, fullResponse,
                   currentText, streamError, toolCalls, tcIdx, rejected, finishReason,
                   respCalls, respResults, nextId, invocations, deltas, genOutstanding,
                   approvalPending, returned, thrown>>

\* 09-HITL.md 141-142: the approval loop asks the gate about the next tool
\* call and waits for the decision
RequestApproval ==
    /\ pc = "tools"
    /\ variant = "hitl"
    /\ tcIdx <= Len(toolCalls)
    /\ LET tc == toolCalls[tcIdx] IN
        /\ approvalPending' = approvalPending \cup {tc.toolCallId}
        /\ trace' = Append(trace, Event("onToolApproval", tc.toolCallId, tc.toolName, <<>>))
    /\ pc' = "approval"
    /\ UNCHANGED <<evalVars, guardVars>>
    /\ UNCHANGED <<variant, conversationHistory, userMessage, messages, fullResponse,
                   currentText, streamError, toolCalls, tcIdx, rejected, finishReason,
                   respCalls, respResults, nextId, invocations, deltas, genOutstanding,
                   running, returned, thrown>>

\* a loop that asks but goes on whatever the answer
StopsOnDecision_never(approved) == FALSE

\* 09-HITL.md 144-147: what the loop does with the decision
StopsOnDecision(approved) == ~approved

\* 09-HITL.md 142-149, 166-168: the decision arrives; a rejection leaves both
\* loops, an approval calls executeTool
ApprovalDecision ==
    /\ pc = "approval"
    /\ \E approved \in BOOLEAN :
        LET tc == toolCalls[tcIdx]
            decided == Append(trace, Event("approvalDecision", tc.toolCallId,
                                           IF approved THEN "approved" ELSE "rejected", <<>>))
        IN
        /\ approvalPending' = approvalPending \ {tc.toolCallId}
        /\ IF StopsOnDecision(approved)
           THEN /\ rejected' = TRUE
                /\ IF OuterBreaks(TRUE)
                   THEN Complete(decided, fullResponse, messages)
                   ELSE /\ trace' = decided
                        /\ pc' = "call"
                        /\ UNCHANGED returned
                /\ UNCHANGED running
           ELSE /\ running' = running \cup {tc.toolCallId}
                /\ pc' = "exec"
                /\ trace' = decided \o StartEvents(variant, tc)
                /\ UNCHANGED <<rejected, returned>>
    /\ UNCHANGED <<evalVars, guardVars>>
    /\ UNCHANGED <<variant, conversationHistory, userMessage, messages, fullResponse,
                   currentText, streamError, toolCalls, tcIdx, finishReason, respCalls,
                   respResults, nextId, invocations, deltas, genOutstanding, thrown>>

\* a loop that reports the result of a tool call but does not append it
ResultMessages_none(tc, value) == <<>>

\* 04-The-Agent-Loop.md 339-349: the tool message the loop appends for a call
ResultMessages(tc, value) == <<Message("tool", <<ToolResultPart(tc, value)>>)>>

\* 04-The-Agent-Loop.md 336-350 / 09-HITL.md 149-163: executeTool settles; its
\* text is reported and appended as a tool-result message, an exception
\* leaves runAgent
ExecSettle ==
    /\ pc = "exec"
    /\ \E executorThrows \in BOOLEAN :
        LET tc == toolCalls[tcIdx]
            r == ExecuteToolOf(variant, tc.toolName, executorThrows)
        IN
        /\ running' = running \ {tc.toolCallId}
        /\ IF r.throws
           THEN /\ thrown' = r.value[1]
                /\ pc' = "thrown"
                /\ trace' = Append(trace \o SettleEvents(tc, r, executorThrows),
                                   Event("throw", 0, r.value[1], <<>>))
                /\ UNCHANGED <<messages, tcIdx, returned>>
           ELSE LET msgs == Push(messages, ResultMessages(tc, r.value))
                    tr == trace \o SettleEvents(tc, r, executorThrows) \o
                            << Event("onToolCallEnd", tc.toolCallId, tc.toolName, r.value),
                               Event("pushResult", tc.toolCallId, tc.toolName, r.value) >>
                IN
                /\ messages' = msgs
                /\ tcIdx' = tcIdx + 1
                /\ IF tcIdx + 1 <= Len(toolCalls)
                   THEN /\ pc' = "tools"
                        /\ trace' = tr
                        /\ UNCHANGED returned
                   ELSE IF OuterBreaks(rejected)
                   THEN Complete(tr, fullResponse, msgs)
                   ELSE /\ pc' = "call"
                        /\ trace' = tr
                        /\ UNCHANGED returned
                /\ UNCHANGED thrown
    /\ conversationHistory' = HistoryAfterPush(conversationHistory, Pushed(messages, messages'))
    /\ UNCHANGED <<evalVars, guardVars>>
    /\ UNCHANGED <<variant, fullResponse, currentText, userMessage,
                   streamError, toolCalls, rejected, finishReason, respCalls, respResults,
                   nextId, invocations, deltas, genOutstanding, approvalPending>>

\* ------------------------------------- runAgent of unnamed/part_006 109-131
\* the tool-call lists a single generation step can come back with
CallLists ==
    UNION { { [i \in 1..k |-> [toolCallId |-> i, toolName |-> names[i]]] :
                names \in [1..k -> LessonToolNames] } : k \in 0..MaxCalls }

\* part_006 114-120: generateText is called and awaited
FirstGenerateText ==
    /\ pc = "call"
    /\ variant = "first"
    /\ invocations' = invocations + 1
    /\ genOutstanding' = genOutstanding + 1
    /\ trace' = Append(trace, Event("generateText", invocations + 1, "", <<>>))
    /\ pc' = "generating"
    /\ UNCHANGED <<evalVars, guardVars>>
    /\ UNCHANGED <<conversationHistory, userMessage, variant, messages, fullResponse,
                   currentText, streamError, toolCalls, tcIdx, rejected, finishReason,
                   respCalls, respResults, nextId, deltas, running, approvalPending,
                   returned, thrown>>

\* part_006 114: the step's text and toolCalls arrive
FirstGenerated ==
    /\ pc = "generating"
    /\ \E calls \in CallLists, text \in {<<>>, <<"1">>} :
        /\ toolCalls' = calls
        /\ respCalls' = calls
        /\ currentText' = text
        /\ nextId' = Len(calls) + 1
    /\ genOutstanding' = genOutstanding - 1
    /\ tcIdx' = 1
    /\ pc' = "forEach"
    /\ UNCHANGED <<evalVars, guardVars>>
    /\ UNCHANGED <<conversationHistory, userMessage, variant, messages, fullResponse,
                   streamError, rejected, finishReason, respResults, invocations,
                   deltas, running, approvalPending, trace, returned, thrown>>

\* part_006 122-126: forEach calls the async callback of the next tool call;
\* the callback calls executeTool and is suspended at its await, and forEach
\* goes on to the next element without waiting for it
ForEachCallback ==
    /\ pc = "forEach"
    /\ tcIdx <= Len(toolCalls)
    /\ LET tc == toolCalls[tcIdx] IN
        /\ running' = running \cup {tc.toolCallId}
        /\ trace' = trace \o StartEvents(variant, tc)
    /\ tcIdx' = tcIdx + 1
    /\ UNCHANGED <<evalVars, guardVars>>
    /\ UNCHANGED <<conversationHistory, userMessage, variant, pc, messages, fullResponse,
                   currentText, streamError, toolCalls, rejected, finishReason,
                   respCalls, respResults, nextId, invocations, deltas, genOutstanding,
                   approvalPending, returned, thrown>>

\* part_006 130-131: after forEach the text is printed and runAgent returns
FirstLogText ==
    /\ pc = "forEach"
    /\ tcIdx > Len(toolCalls)
    /\ trace' = Append(Append(trace, Event("consoleLog", 0, "", currentText)),
                       Event("return", 0, "", <<>>))
    /\ returned' = <<>>
    /\ pc' = "done"
    /\ UNCHANGED <<evalVars, guardVars>>
    /\ UNCHANGED <<conversationHistory, userMessage, variant, messages, fullResponse,
                   currentText, streamError, toolCalls, tcIdx, rejected, finishReason,
                   respCalls, respResults, nextId, invocations, deltas, genOutstanding,
                   running, approvalPending, thrown>>

\* part_006 123-127: a callback's executeTool settles, in whatever order the
\* tools finish; its text is printed, its exception is nobody's to catch
CallbackSettle ==
    /\ variant = "first"
    /\ pc = "done"
    /\ \E i \in 1..Len(toolCalls), executorThrows \in BOOLEAN :
        LET tc == toolCalls[i]
            r == ExecuteToolOf(variant, tc.toolName, executorThrows)
        IN
        /\ tc.toolCallId \in running
        /\ running' = running \ {tc.toolCallId}
        /\ trace' = Append(trace \o SettleEvents(tc, r, executorThrows),
                           Event(IF r.throws THEN "unhandledRejection" ELSE "consoleLog",
                                 tc.toolCallId, tc.toolName, r.value))
    /\ UNCHANGED <<evalVars, guardVars>>
    /\ UNCHANGED <<conversationHistory, userMessage, variant, pc, messages, fullResponse,
                   currentText, streamError, toolCalls, tcIdx, rejected, finishReason,
                   respCalls, respResults, nextId, invocations, deltas, genOutstanding,
                   approvalPending, returned, thrown>>

\* --------------------------------------------------------------------- Next
Next ==
    \/ StreamText
    \/ OnTextDelta
    \/ OnToolCall
    \/ OnToolResult
    \/ StreamEnd
    \/ StreamError
    \/ ExecStart
    \/ RequestApproval
    \/ ApprovalDecision
    \/ ExecSettle
    \/ FirstGenerateText
    \/ FirstGenerated
    \/ ForEachCallback
    \/ FirstLogText
    \/ CallbackSettle

Spec == Init /\ [][Next]_vars

\* ------------------------------------ the stream of src/agent/run.ts alone
InitStream ==
    /\ Init
    /\ variant = "run"

NextStream ==
    \/ StreamText
    \/ OnTextDeltaOfStream
    \/ OnToolCall
    \/ OnToolResult
    \/ StreamEnd
    \/ StreamError

SpecStream == InitStream /\ [][NextStream]_vars

\* ------------------------- runAgent with the pre-check of the context size
\* (07-Web-Search-Context-Management.md 412-429, in front of the loop of
\* 04-The-Agent-Loop.md)

\* the threshold, in percent of the context window
DEFAULT_THRESHOLD == 80

\* context/tokenEstimator.ts is not part of the sources at hand: the estimate
\* is a function of the message contents alone; here, the number of tokens
estimateMessagesTokens(msgs) ==
    Len(Flatten([i \in 1..Len(Parts(msgs)) |-> Parts(msgs)[i].value]))

\* a threshold test that is also true at the threshold itself
isOverThreshold_atOrAbove(totalTokens, contextWindow, threshold) ==
    totalTokens * 100 >= contextWindow * threshold

\* 07-Web-Search-Context-Management.md 319-325
isOverThreshold(totalTokens, contextWindow, threshold) ==
    totalTokens * 100 > contextWindow * threshold

\* the summaries generateText can come back with
Summaries == {<<"summary">>}

\* a seed without the assistant's acknowledgment
CompactedMessages_summaryOnly(summary) ==
    << Message("user", <<TextPart(<<"[CONVERSATION SUMMARY] The following is a summary of our conversation so far:">>
                                    \o summary
                                    \o <<"Please continue from where we left off.">>)>>) >>

\* a seed with the acknowledgment in front of the summary
CompactedMessages_ackFirst(summary) ==
    << Message("assistant", <<TextPart(<<"I understand. I've reviewed the summary of our conversation and I'm ready to continue. How can I help you next?">>)>>),
       Message("user", <<TextPart(<<"[CONVERSATION SUMMARY] The following is a summary of our conversation so far:">>
                                    \o summary
                                    \o <<"Please continue from where we left off.">>)>>) >>

\* 07-Web-Search-Context-Management.md 372-385: the two-message seed
CompactedMessages(summary) ==
    << Message("user", <<TextPart(<<"[CONVERSATION SUMMARY] The following is a summary of our conversation so far:">>
                                    \o summary
                                    \o <<"Please continue from where we left off.">>)>>),
       Message("assistant", <<TextPart(<<"I understand. I've reviewed the summary of our conversation and I'm ready to continue. How can I help you next?">>)>>) >>

\* 07-Web-Search-Context-Management.md 361
ConversationMessages(msgs) == SelectSeq(msgs, LAMBDA m : m.role # "system")

\* a compactConversation without the early return
compactConversation_alwaysSeed(msgs, summary) == CompactedMessages(summary)

\* 07-Web-Search-Context-Management.md 356-388; summary is the text
\* generateText comes back with (it is not asked when nothing is left to
\* summarize)
compactConversation(msgs, summary) ==
    IF ConversationMessages(msgs) = <<>> THEN <<>> ELSE CompactedMessages(summary)

\* what the callers hand in: a short history (below the threshold), the
\* history of two turns (above it), a long first message without history
\* (above it, with nothing to summarize), and the seed of an earlier
\* compaction as the history (above it)
CallerInputs ==
    { [history |-> << Message("user", <<TextPart(<<"first question">>)>>),
                      Message("assistant", <<TextPart(<<"first answer">>)>>) >>,
       text |-> <<"question">>] }
    \cup { [history |-> h, text |-> <<"question">>] : h \in Histories }
    \cup { [history |-> <<>>, text |-> <<"a", "long", "pasted", "text">>] }
    \cup { [history |-> CompactedMessages(summary), text |-> <<"question">>] :
               summary \in Summaries }

InitCompact ==
    /\ variant = "loop"
    /\ \E input \in CallerInputs :
        /\ conversationHistory = input.history
        /\ userMessage = input.text
    /\ pc = "precheck"
    /\ messages = <<>>
    /\ fullResponse = <<>>
    /\ currentText = <<>>
    /\ streamError = "none"
    /\ toolCalls = <<>>
    /\ tcIdx = 1
    /\ rejected = FALSE
    /\ finishReason = "none"
    /\ respCalls = <<>>
    /\ respResults = <<>>
    /\ nextId = 1
    /\ invocations = 0
    /\ deltas = 0
    /\ genOutstanding = 0
    /\ running = {}
    /\ approvalPending = {}
    /\ trace = <<>>
    /\ returned = <<>>
    /\ thrown = "none"
    /\ NoEval
    /\ NoGuard

\* messages with the history behind the new user message
MessagesFrom_historyLast(workingHistory) ==
    <<Message("system", <<TextPart(SYSTEM_PROMPT)>>)>>
        \o <<Message("user", <<TextPart(userMessage)>>)>>
        \o workingHistory

\* 07-Web-Search-Context-Management.md 421-423 / 04-The-Agent-Loop.md 261-265
MessagesFrom(workingHistory) ==
    <<Message("system", <<TextPart(SYSTEM_PROMPT)>>)>>
        \o workingHistory
        \o <<Message("user", <<TextPart(userMessage)>>)>>

\* what records the end of a compaction: the roles of what it returned
CompactEnd(compacted) ==
    Event("compactEnd", 0, "", [i \in 1..Len(compacted) |-> compacted[i].role])

\* 07-Web-Search-Context-Management.md 415-429 at the positions pcs of
\* runAgent: the estimate of system prompt, filtered history and user
\* message; above the threshold compactConversation is called, which comes
\* back at once when there is nothing to summarize and otherwise waits for
\* generateText
PreCheckAt(pcs) ==
    /\ pc \in pcs
    /\ LET workingHistory == filterCompatibleMessages(conversationHistory)
           preCheckTokens == estimateMessagesTokens(MessagesFrom(workingHistory))
       IN
       IF ~isOverThreshold(preCheckTokens, ContextWindow, DEFAULT_THRESHOLD)
       THEN /\ messages' = MessagesFrom(workingHistory)
            /\ pc' = "call"
            /\ UNCHANGED <<trace, genOutstanding>>
       ELSE IF ConversationMessages(workingHistory) = <<>>
       THEN LET compacted == compactConversation(workingHistory, <<>>) IN
            /\ messages' = MessagesFrom(compacted)
            /\ trace' = trace \o <<Event("compactStart", 0, "", <<>>), CompactEnd(compacted)>>
            /\ pc' = "call"
            /\ UNCHANGED genOutstanding
       ELSE /\ trace' = Append(trace, Event("compactStart", 0, "", <<>>))
            /\ genOutstanding' = genOutstanding + 1
            /\ pc' = "summarizing"
            /\ UNCHANGED messages
    /\ UNCHANGED <<evalVars, guardVars>>
    /\ UNCHANGED <<variant, conversationHistory, userMessage, fullResponse, currentText,
                   streamError, toolCalls, tcIdx, rejected, finishReason, respCalls,
                   respResults, nextId, invocations, deltas, running, approvalPending,
                   returned, thrown>>

\* a pre-check at the top of every iteration of the loop
PreCheck_inLoop ==
    /\ Cardinality({p \in 1..Len(trace) : trace[p].ev = "compactStart"}) < 2
    /\ PreCheckAt({"precheck", "call"})

\* 07-Web-Search-Context-Management.md 415-429: the pre-check stands in
\* front of the while loop
PreCheck ==
    /\ pc = "precheck"
    /\ PreCheckAt({"precheck"})

\* 07-Web-Search-Context-Management.md 369-387, 427: generateText comes back
\* with the summary; the seed becomes the working history
Summarized ==
    /\ pc = "summarizing"
    /\ \E summary \in Summaries :
        LET compacted == compactConversation(filterCompatibleMessages(conversationHistory),
                                             summary)
        IN
        /\ messages' = MessagesFrom(compacted)
        /\ trace' = Append(trace, CompactEnd(compacted))
    /\ genOutstanding' = genOutstanding - 1
    /\ pc' = "call"
    /\ UNCHANGED <<evalVars, guardVars>>
    /\ UNCHANGED <<variant, conversationHistory, userMessage, fullResponse, currentText,
                   streamError, toolCalls, tcIdx, rejected, finishReason, respCalls,
                   respResults, nextId, invocations, deltas, running, approvalPending,
                   returned, thrown>>

\* 07-Web-Search-Context-Management.md 369-372, 427: generateText throws;
\* nothing catches it on the way out of runAgent
SummaryFailed ==
    /\ pc = "summarizing"
    /\ genOutstanding' = genOutstanding - 1
    /\ thrown' = OtherMessage
    /\ trace' = Append(trace, Event("throw", 0, OtherMessage, <<>>))
    /\ pc' = "thrown"
    /\ UNCHANGED <<evalVars, guardVars>>
    /\ UNCHANGED <<variant, conversationHistory, userMessage, messages, fullResponse,
                   currentText, streamError, toolCalls, tcIdx, rejected, finishReason,
                   respCalls, respResults, nextId, invocations, deltas, running,
                   approvalPending, returned>>

NextCompact ==
    \/ PreCheck
    \/ Summarized
    \/ SummaryFailed
    \/ StreamText
    \/ OnTextDelta
    \/ OnToolCall
    \/ StreamEnd
    \/ StreamError
    \/ ExecStart
    \/ ExecSettle

SpecCompact == InitCompact /\ [][NextCompact]_vars

\* ------------------------------------------------------------------ evals
\* (executors of unnamed/part_004, evaluators of unnamed/part_006)
EvalToolNames == {"readFile", "deleteFile"}

\* multiTurnWithMocks exists twice: unnamed/part_004 and the listing of
\* 05-Multi-turn-Evals.md
Executors == {"singleTurnWithMocks", "multiTurnWithMocks", "multiTurnWithMocks (notes)"}

NameLists(max) == UNION {[1..k -> EvalToolNames] : k \in 0..max}

\* result.steps: one step, or two steps
StepLists ==
    {<<calls>> : calls \in NameLists(MaxStepCalls)}
    \cup {<<first, second>> : first \in NameLists(MaxStepCalls), second \in NameLists(MaxStepCalls)}

\* the targets of the data points: one of the three lists, or none
Targets ==
    {NoTarget}
    \cup {[NoTarget EXCEPT !.expectedTools = Present(list)] : list \in NameLists(MaxTargetLen)}
    \cup {[NoTarget EXCEPT !.forbiddenTools = Present(list)] : list \in NameLists(MaxTargetLen)}
    \cup {[NoTarget EXCEPT !.expectedToolOrder = Present(list)] : list \in NameLists(MaxTargetLen)}

\* the agent loop is not running
AgentIdle ==
    /\ variant = "run"
    /\ conversationHistory = <<>>
    /\ userMessage = <<>>
    /\ pc = "idle"
    /\ messages = <<>>
    /\ fullResponse = <<>>
    /\ currentText = <<>>
    /\ streamError = "none"
    /\ toolCalls = <<>>
    /\ tcIdx = 1
    /\ rejected = FALSE
    /\ finishReason = "none"
    /\ respCalls = <<>>
    /\ respResults = <<>>
    /\ nextId = 1
    /\ invocations = 0
    /\ deltas = 0
    /\ genOutstanding = 0
    /\ running = {}
    /\ approvalPending = {}
    /\ trace = <<>>
    /\ returned = <<>>
    /\ thrown = "none"

\* a single-turn run has one step (stopWhen: stepCountIs(1), part_004 140)
InitEvals ==
    /\ AgentIdle
    /\ executor \in Executors
    /\ steps \in StepLists
    /\ Len(Flatten(steps)) <= MaxStepCalls
    /\ executor = "singleTurnWithMocks" => Len(steps) = 1
    /\ target \in Targets
    /\ output = NoOutput
    /\ score = NoScore
    /\ NoGuard

\* [...new Set(list)]: the elements of list, each once, in the order of
\* their first occurrence
RECURSIVE Distinct(_)
Distinct(list) ==
    IF list = <<>> THEN <<>>
    ELSE LET front == Distinct(SubSeq(list, 1, Len(list) - 1))
             last == list[Len(list)]
         IN IF Contains(front, last) THEN front ELSE Append(front, last)

\* part_004 201: [new Set(allToolCalls)], an array whose one element is the
\* Set; 05-Multi-turn-Evals.md 307: [...new Set(allToolCalls)], its elements
ToolsUsedOf(e, allToolCalls) ==
    IF e = "multiTurnWithMocks"
    THEN <<SetValue(Range(allToolCalls))>>
    ELSE LET names == Distinct(allToolCalls)
         IN [i \in 1..Len(names) |-> NameValue(names[i])]

\* part_004 144-155: the result of singleTurnWithMocks
singleTurnWithMocks(toolCallNames) ==
    [kind |-> "single", toolNames |-> toolCallNames, selectedAny |-> Len(toolCallNames) > 0,
     toolsUsed |-> <<>>, toolCallOrder |-> <<>>]

\* part_004 177-208: the result of multiTurnWithMocks
multiTurnWithMocks(e, resultSteps) ==
    LET allToolCalls == Flatten(resultSteps) IN
    [kind |-> "multi", toolNames |-> <<>>, selectedAny |-> FALSE,
     toolsUsed |-> ToolsUsedOf(e, allToolCalls), toolCallOrder |-> allToolCalls]

\* `list?.length` is falsy
NoLength(opt) == ~opt.defined \/ opt.value = <<>>

\* part_006 43-45: new Set("toolNames" in output ? output.toolNames :
\* output.toolsUsed)
Selected(out) ==
    IF out.kind = "single"
    THEN {NameValue(out.toolNames[i]) : i \in 1..Len(out.toolNames)}
    ELSE Range(out.toolsUsed)

\* part_006 37-48
toolsAvoided(out, tgt) ==
    IF NoLength(tgt.forbiddenTools) THEN One
    ELSE IF \E i \in 1..Len(tgt.forbiddenTools.value) :
                NameValue(tgt.forbiddenTools.value[i]) \in Selected(out)
    THEN Zero
    ELSE One

\* part_006 55-73
toolSelectionScore(out, tgt) ==
    IF NoLength(tgt.expectedTools)
    THEN (IF out.selectedAny THEN Frac(1, 2) ELSE One)
    ELSE LET expected == Range(tgt.expectedTools.value)
             selected == Range(out.toolNames)
             hits == Len(SelectSeq(out.toolNames, LAMBDA t : t \in expected))
             precision == IF Cardinality(selected) > 0
                          THEN Frac(hits, Cardinality(selected)) ELSE Zero
             recall == IF Cardinality(expected) > 0
                       THEN Frac(hits, Cardinality(expected)) ELSE Zero
         IN IF SameNumber(Plus(precision, recall), Zero)
            THEN Zero
            ELSE DividedBy(Times(Times(Frac(2, 1), precision), recall),
                           Plus(precision, recall))

\* a scan that starts over when a tool name does not match
Advance_resetOnMismatch(expectedIdx, toolName, expectedToolOrder) ==
    IF toolName = expectedToolOrder[expectedIdx + 1] THEN expectedIdx + 1 ELSE 0

\* part_006 89-94: the body of the for loop
Advance(expectedIdx, toolName, expectedToolOrder) ==
    IF toolName = expectedToolOrder[expectedIdx + 1] THEN expectedIdx + 1 ELSE expectedIdx

\* part_006 88-95: the for loop over actualOrder, left when the whole
\* expected order was found
RECURSIVE Scan(_, _, _)
Scan(actualOrder, expectedIdx, expectedToolOrder) ==
    IF actualOrder = <<>> \/ expectedIdx = Len(expectedToolOrder)
    THEN expectedIdx
    ELSE Scan(Tail(actualOrder),
              Advance(expectedIdx, Head(actualOrder), expectedToolOrder),
              expectedToolOrder)

\* part_006 80-98
toolOrderCorrect(out, tgt) ==
    IF NoLength(tgt.expectedToolOrder) THEN One
    ELSE Frac(Scan(out.toolCallOrder, 0, tgt.expectedToolOrder.value),
              Len(tgt.expectedToolOrder.value))

\* part_004 121-156: the task of a single-turn eval
RunSingleTurn ==
    /\ executor = "singleTurnWithMocks"
    /\ output.kind = "none"
    /\ output' = singleTurnWithMocks(steps[1])
    /\ UNCHANGED <<executor, steps, target, score>>
    /\ UNCHANGED <<agentVars, guardVars>>

\* part_004 162-208: the task of a multi-turn eval
RunMultiTurn ==
    /\ executor \in {"multiTurnWithMocks", "multiTurnWithMocks (notes)"}
    /\ output.kind = "none"
    /\ output' = multiTurnWithMocks(executor, steps)
    /\ UNCHANGED <<executor, steps, target, score>>
    /\ UNCHANGED <<agentVars, guardVars>>

\* the scorers of the evals, each applied to the output of the task
ScoreToolsAvoided ==
    /\ output.kind # "none"
    /\ score.evaluator = "none"
    /\ score' = [evaluator |-> "toolsAvoided", value |-> toolsAvoided(output, target)]
    /\ UNCHANGED <<executor, steps, target, output>>
    /\ UNCHANGED <<agentVars, guardVars>>

ScoreToolSelection ==
    /\ output.kind = "single"
    /\ score.evaluator = "none"
    /\ score' = [evaluator |-> "toolSelectionScore",
                 value |-> toolSelectionScore(output, target)]
    /\ UNCHANGED <<executor, steps, target, output>>
    /\ UNCHANGED <<agentVars, guardVars>>

ScoreToolOrder ==
    /\ output.kind = "multi"
    /\ score.evaluator = "none"
    /\ score' = [evaluator |-> "toolOrderCorrect", value |-> toolOrderCorrect(output, target)]
    /\ UNCHANGED <<executor, steps, target, output>>
    /\ UNCHANGED <<agentVars, guardVars>>

NextEvals ==
    \/ RunSingleTurn
    \/ RunMultiTurn
    \/ ScoreToolsAvoided
    \/ ScoreToolSelection
    \/ ScoreToolOrder

SpecEvals == InitEvals /\ [][NextEvals]_vars

\* ---------------- the error threshold of 04-The-Agent-Loop.md 191-203
\* the guard sits in a loop that runs one tool per pass; toolFailed is what
\* the pass found out about its tool
InitGuard ==
    /\ AgentIdle
    /\ NoEval
    /\ NoGuard

\* a threshold that is reached with the third failure
ErrorThresholdBreaks_atThree(errors) == errors >= 3

\* 04-The-Agent-Loop.md 199: if (consecutiveErrors > 3) break
ErrorThresholdBreaks(errors) == errors > 3

\* 04-The-Agent-Loop.md 197-199: the tool of this pass failed
ToolFailed ==
    /\ ~stopped
    /\ Len(toolRuns) < MaxToolRuns
    /\ toolRuns' = Append(toolRuns, TRUE)
    /\ consecutiveErrors' = consecutiveErrors + 1
    /\ stopped' = ErrorThresholdBreaks(consecutiveErrors + 1)
    /\ UNCHANGED <<agentVars, evalVars>>

\* 04-The-Agent-Loop.md 200-202: the tool of this pass did not fail
ToolSucceeded ==
    /\ ~stopped
    /\ Len(toolRuns) < MaxToolRuns
    /\ toolRuns' = Append(toolRuns, FALSE)
    /\ consecutiveErrors' = 0
    /\ UNCHANGED stopped
    /\ UNCHANGED <<agentVars, evalVars>>

NextGuard ==
    \/ ToolFailed
    \/ ToolSucceeded

SpecGuard == InitGuard /\ [][NextGuard]_vars

\* ------------------------------------------------------ reading the trace
Positions == 1..Len(trace)
At(ev) == {p \in Positions : trace[p].ev = ev}
AtFor(ev, id) == {p \in Positions : trace[p].ev = ev /\ trace[p].id = id}
Rejections == {p \in At("approvalDecision") : trace[p].name = "rejected"}
Settles == At("execEnd") \cup At("execThrow")

\* the ids of the tool-call requests of a message, in order
CallIds(m) ==
    LET calls == SelectSeq(m.content, LAMBDA part : part.type = "tool-call")
    IN [i \in 1..Len(calls) |-> calls[i].toolCallId]

\* the batch a tool call belongs to: the ids of the assistant message that
\* carries its request
BatchOf(id) ==
    LET i == CHOOSE i \in 1..Len(messages) : id \in Range(CallIds(messages[i]))
    IN CallIds(messages[i])
IndexIn(batch, id) == CHOOSE k \in 1..Len(batch) : batch[k] = id

\* the tool-result parts of the conversation state that answer a tool call
ResultsFor(id) ==
    LET parts == Parts(messages) IN
    {i \in 1..Len(parts) : parts[i].type = "tool-result" /\ parts[i].toolCallId = id}

\* the assistant messages this invocation appended
ResponseAssistants ==
    {i \in Len(InitialMessages(conversationHistory, userMessage)) + 1 .. Len(messages) :
        messages[i].role = "assistant"}

\* ------------------------------------------------------------------ claims

\* C1: in every conversation state, every tool-result carries the toolCallId
\* of exactly one tool-call request that stands earlier in the sequence.
C1_ToolResultMatchesOneEarlierRequest ==
    LET parts == Parts(messages) IN
    \A i \in 1..Len(parts) :
        parts[i].type = "tool-result" =>
            Cardinality({j \in 1..(i - 1) :
                            /\ parts[j].type = "tool-call"
                            /\ parts[j].toolCallId = parts[i].toolCallId}) = 1

\* C1 witness: the loop has appended the results of two tool calls of its own
C1_Witness ==
    /\ variant \in {"loop", "hitl"}
    /\ Cardinality(At("pushResult")) >= 2
    /\ \E i \in 1..Len(messages) : messages[i].role = "tool"

\* C2: when the gate rejects call k of a batch, calls 1..k-1 of that batch
\* have each been executed once and have one result in the state, and none
\* of the calls k..N is executed or answered.
C2_RejectionAtKExecutesKMinusOne ==
    \A p \in Rejections :
        LET batch == BatchOf(trace[p].id)
            k == IndexIn(batch, trace[p].id)
        IN \A i \in 1..Len(batch) :
            IF i < k
            THEN /\ Cardinality(AtFor("execStart", batch[i])) = 1
                 /\ Cardinality(AtFor("execEnd", batch[i])) = 1
                 /\ Cardinality(ResultsFor(batch[i])) = 1
                 /\ \A q \in AtFor("execEnd", batch[i]) : q < p
            ELSE /\ AtFor("execStart", batch[i]) = {}
                 /\ AtFor("executorInvoked", batch[i]) = {}
                 /\ ResultsFor(batch[i]) = {}

\* C2 witness: the second call of a batch of three is rejected after the
\* first was executed
C2_Witness ==
    \E p \in Rejections :
        /\ Len(BatchOf(trace[p].id)) = 3
        /\ IndexIn(BatchOf(trace[p].id), trace[p].id) = 2
        /\ pc = "done"

\* C3 (as claimed): a model that asks for a tool in every response is
\* stopped after 3 model invocations; a 4th is never made.
C3_NeverAFourthInvocation ==
    (/\ \A p \in At("finishReason") : trace[p].name = "tool-calls"
     /\ \A i \in ResponseAssistants : CallIds(messages[i]) # <<>>)
        => invocations <= 3

C5_ExecutionOnlyAfterApproval ==
    variant = "hitl" =>
        /\ \A q \in At("execStart") :
            \E p \in AtFor("approvalDecision", trace[q].id) :
                p < q /\ trace[p].name = "approved"
        /\ \A p \in At("approvalDecision") :
            \E r \in AtFor("onToolApproval", trace[p].id) : r < p
        /\ \A p \in At("onToolApproval") :
            Cardinality(AtFor("onToolApproval", trace[p].id)) = 1
        /\ Cardinality(approvalPending) <= 1
        /\ approvalPending # {} => running = {}

\* C5 witness: an approved call is running
C5_Witness ==
    /\ variant = "hitl"
    /\ pc = "exec"
    /\ \E p \in At("approvalDecision") : trace[p].name = "approved"

\* C6: a rejection ends the invocation: runAgent has returned, the model is
\* not called again, and neither the rejected call nor a later call of the
\* batch gets a tool-result.
C6_RejectionEndsTurnWithoutResult ==
    \A p \in Rejections :
        /\ pc = "done"
        /\ thrown = "none"
        /\ \A q \in Positions :
            q > p => trace[q].ev \notin {"streamText", "pushResult", "pushResponse"}
        /\ LET batch == BatchOf(trace[p].id) IN
           \A i \in IndexIn(batch, trace[p].id)..Len(batch) : ResultsFor(batch[i]) = {}

\* C6 witness: the first call of a batch of two is rejected in the second
\* iteration
C6_Witness ==
    \E p \in Rejections :
        /\ invocations = 2
        /\ Len(BatchOf(trace[p].id)) = 2
        /\ IndexIn(BatchOf(trace[p].id), trace[p].id) = 1

\* C7 (as claimed): at most one tool execution is in progress, a tool call
\* starts only after the one before it has settled, and at most one
\* generation request is outstanding.
C7_NothingRunsInParallel ==
    /\ Cardinality(running) <= 1
    /\ genOutstanding <= 1
    /\ \A p, q \in At("execStart") :
        p < q => \E r \in Settles : p < r /\ r < q /\ trace[r].id = trace[p].id

\* C8 (as claimed): executeTool with a name the registry lacks ends with a
\* text that says so, never with an exception, and runAgent does not fail.
C8_UnknownToolIsReportedAsText ==
    \A p \in Settles :
        trace[p].name \notin DOMAIN RegistryOf(variant) =>
            /\ trace[p].ev = "execEnd"
            /\ trace[p].val = <<"Unknown tool: ", trace[p].name>>
            /\ thrown = "none"
            /\ At("unhandledRejection") = {}

\* C9 (as claimed): when a tool's execute function throws, executeTool ends
\* with a text that contains the thrown message, and runAgent goes on.
C9_ExecutorExceptionBecomesText ==
    \A p \in At("executorThrew") :
        /\ \E q \in AtFor("execEnd", trace[p].id) :
            p < q /\ Contains(trace[q].val, OtherMessage)
        /\ thrown = "none"

IsProviderTool(name) ==
    name \in DOMAIN RegistryOf(variant) /\ ~RegistryOf(variant)[name].execute

\* C11 (as claimed): the loop appends no tool-result of its own for a call of
\* a provider tool, and no toolCallId has two tool-results in the state.
C11_NoLoopResultForProviderTool ==
    /\ \A p \in At("pushResult") : ~IsProviderTool(trace[p].name)
    /\ \A id \in 1..(nextId - 1) : Cardinality(ResultsFor(id)) <= 1

\* C12 (as claimed): whatever way the generation stream fails, runAgent does
\* not throw to its caller.
C12_StreamFailureNeverThrown ==
    streamError # "none" => (pc # "thrown" /\ thrown = "none")

\* C13 (as claimed): once the stream has failed in an iteration without text,
\* the apology went through onToken, runAgent is done without a further model
\* invocation, and onComplete got the apology.
C13_FailureWithoutTextEndsWithApology ==
    (streamError # "none" /\ currentText = <<>> /\ pc # "stream") =>
        /\ pc = "done"
        /\ \E p \in At("onToken") : trace[p].val = APOLOGY
        /\ \E p \in At("onComplete") : trace[p].val = APOLOGY
        /\ \A p \in At("streamText") : trace[p].id <= invocations
        /\ AtFor("finishReason", invocations) = {}

\* C14: once the stream has failed in an iteration after text arrived, the
\* text is the end of the accumulated response, no apology was emitted, the
\* finish reason was read and the response (with the text) appended, and the
\* loop went on or ended as that finish reason and the tool calls say.
C14_FailureAfterTextGoesOnAsNormal ==
    (streamError # "none" /\ currentText # <<>> /\ pc # "stream") =>
        /\ AtFor("finishReason", invocations) # {}
        /\ AtFor("pushResponse", invocations) # {}
        /\ \A p \in At("onToken") : trace[p].val # APOLOGY
        /\ Len(fullResponse) >= Len(currentText)
        /\ SubSeq(fullResponse, Len(fullResponse) - Len(currentText) + 1,
                  Len(fullResponse)) = currentText
        /\ \E i \in ResponseAssistants : Contains(messages[i].content, TextPart(currentText))
        /\ \A p \in AtFor("finishReason", invocations) :
            /\ trace[p].name = finishReason
            /\ IF LeavesLoop(variant, finishReason, toolCalls)
               THEN /\ pc = "done"
                    /\ At("onComplete") # {}
                    /\ \A q \in Positions :
                        q > p => trace[q].ev \notin {"streamText", "execStart", "onToolApproval"}
               ELSE IF variant = "run"
               THEN pc = "call"
               ELSE \/ pc = "tools" /\ tcIdx = 1
                    \/ \E q \in Positions :
                        /\ q > p
                        /\ trace[q].ev \in {"execStart", "onToolApproval"}
                        /\ trace[q].id = toolCalls[1].toolCallId

\* C14 witness: the stream failed after a text increment and a tool call, the
\* finish reason was tool-calls, and the loop is about to run the tool
C14_Witness ==
    /\ variant = "loop"
    /\ streamError # "none"
    /\ currentText # <<>>
    /\ pc = "tools"
    /\ toolCalls # <<>>

\* whether a tool call was approved; without a gate every call is
Approved(id) ==
    variant = "hitl" =>
        \E p \in AtFor("approvalDecision", id) : trace[p].name = "approved"

C16_ReturnedHasNoSystemMessage ==
    /\ pc = "done" => \A i \in 1..Len(returned) : returned[i].role # "system"
    /\ pc = "stream" =>
        /\ messages[1].role = "system"
        /\ \A i \in 2..Len(messages) : messages[i].role # "system"

\* the events that show a tool call being executed: the loop's call of
\* executeTool, or the result chunk of a tool the SDK ran
Executions == At("execStart") \cup {p \in At("onToolCallEnd") : variant = "run"}

\* C17 (as claimed): whenever a tool call is being or has been executed, the
\* assistant message with its request is in the conversation state.
C17_RequestsAppendedBeforeExecution ==
    \A p \in Executions :
        \E i \in 1..Len(messages) :
            /\ messages[i].role = "assistant"
            /\ trace[p].id \in Range(CallIds(messages[i]))

\* C18 (as claimed): of two tool calls that both start, the one the model
\* produced first starts first, and it has ended, with its result appended
\* where the loop appends results, before the other starts.
C18_BatchRunsInModelOrder ==
    \A p, q \in At("execStart") :
        trace[p].id < trace[q].id =>
            /\ p < q
            /\ \E r \in AtFor("execEnd", trace[p].id) : r < q
            /\ variant \in {"loop", "hitl"} =>
                \E r \in AtFor("pushResult", trace[p].id) : r < q

\* the events of a compaction
Compactions == At("compactStart") \cup At("compactEnd")

\* C19: the history is compacted at most once in an invocation of runAgent,
\* before the first call of the model, before any tool call was asked for
\* or any response appended, and so never between a tool-call request and
\* its tool-result.
C19_CompactionOnlyBeforeTheTurn ==
    /\ Cardinality(At("compactStart")) <= 1
    /\ Cardinality(At("compactEnd")) <= 1
    /\ \A p \in Compactions :
        \A q \in Positions :
            trace[q].ev \in {"streamText", "onToolCallStart", "pushResponse",
                             "execStart", "pushResult"} => p < q
    /\ pc \in {"precheck", "summarizing"} => invocations = 0 /\ messages = <<>>

\* C19 witness: the history was compacted and the loop has since appended a
\* tool-call request and is waiting for the tool
C19_Witness ==
    /\ At("compactEnd") # {}
    /\ pc = "exec"
    /\ invocations = 2

\* the messages compactConversation was given in this invocation
CompactionInput == filterCompatibleMessages(conversationHistory)

\* C20 (as claimed): whatever its input, compactConversation returns two
\* messages, a user message and then an assistant message.
C20_CompactionReturnsTwoMessages ==
    \A p \in At("compactEnd") : trace[p].val = <<"user", "assistant">>

\* C20 (amended): given at least one message that is not a system message,
\* compactConversation returns two messages, a user message that embeds the
\* summary and then an assistant message; given none, it returns no message.
C20_CompactionReturnsSeedOrNothing ==
    \A p \in At("compactEnd") :
        IF ConversationMessages(CompactionInput) = <<>>
        THEN /\ trace[p].val = <<>>
             /\ SubSeq(messages, 1, 2) = MessagesFrom(<<>>)
        ELSE /\ trace[p].val = <<"user", "assistant">>
             /\ Len(messages) >= 4
             /\ messages[2].role = "user"
             /\ messages[3].role = "assistant"
             /\ messages[4] = Message("user", <<TextPart(userMessage)>>)
             /\ \E summary \in Summaries :
                 /\ SubSeq(messages, 2, 3) = CompactedMessages(summary)
                 /\ \A i \in 1..Len(summary) :
                     Contains(messages[2].content[1].value, summary[i])

\* C20 witness: a history of four messages was compacted into the seed
C20_Witness ==
    /\ At("compactEnd") # {}
    /\ Len(CompactionInput) >= 3
    /\ Len(messages) = 4
    /\ pc = "call"

\* whether msgs is a two-message seed: a user message that holds a summary
\* between the fixed words, then the assistant's acknowledgment
IsSeed(msgs) == \E summary \in Summaries : msgs = CompactedMessages(summary)

\* the roles of a message sequence, in order
Roles(msgs) == [i \in 1..Len(msgs) |-> msgs[i].role]

\* C21: compacting a seed gives a seed again: when the history handed in is
\* the seed of an earlier compaction, the compaction ends with two messages,
\* user then assistant; and compactConversation applied to whatever seed
\* stands in the conversation state gives two messages with these two roles.
C21_CompactingASeedGivesASeed ==
    /\ IsSeed(CompactionInput) =>
        \A p \in At("compactEnd") :
            /\ trace[p].val = <<"user", "assistant">>
            /\ IsSeed(SubSeq(messages, 2, 3))
    /\ (At("compactEnd") # {} /\ Len(messages) >= 3 /\ IsSeed(SubSeq(messages, 2, 3))) =>
        \A summary \in Summaries :
            LET again == compactConversation(SubSeq(messages, 2, 3), summary) IN
            /\ Roles(again) = <<"user", "assistant">>
            /\ IsSeed(again)

\* C21 witness: a seed was handed in as the history and has been compacted
\* into a seed
C21_Witness ==
    /\ IsSeed(CompactionInput)
    /\ At("compactEnd") # {}
    /\ pc = "call"
    /\ thrown = "none"

\* C29: while the model is invoked for the first time, the conversation
\* state is the system message, then the filtered history (or what
\* compaction made of it) in order, then the user message with userMessage.
C29_FirstInvocationSeesSystemHistoryUser ==
    (pc = "stream" /\ invocations = 1) =>
        LET n == Len(messages)
            history == SubSeq(messages, 2, n - 1)
        IN
        /\ n >= 2
        /\ messages[1] = Message("system", <<TextPart(SYSTEM_PROMPT)>>)
        /\ messages[n] = Message("user", <<TextPart(userMessage)>>)
        /\ IF At("compactEnd") = {}
           THEN history = CompactionInput
           ELSE \E summary \in Summaries :
                   history = compactConversation(CompactionInput, summary)
        /\ \A i \in 2..n : messages[i].role # "system"

\* C29 witness: the first invocation runs on a history that was not compacted
C29_Witness ==
    /\ pc = "stream"
    /\ invocations = 1
    /\ At("compactStart") = {}
    /\ Len(messages) = 4

\* the estimate the pre-check works with
PreCheckTokens == estimateMessagesTokens(MessagesFrom(CompactionInput))

\* C30: the history is compacted exactly when the estimate is strictly above
\* 80% of the context window (5 * tokens > 4 * window); at exactly 80% it is
\* not compacted.
C30_OverThresholdIsStrictlyAbove80Percent ==
    pc # "precheck" =>
        /\ At("compactStart") # {} <=> 5 * PreCheckTokens > 4 * ContextWindow
        /\ 5 * PreCheckTokens = 4 * ContextWindow => Compactions = {}
        /\ \A totalTokens \in 0..(2 * ContextWindow) :
            isOverThreshold(totalTokens, ContextWindow, DEFAULT_THRESHOLD)
                <=> 5 * totalTokens > 4 * ContextWindow

\* C30 witness: the estimate is at exactly 80% of the context window and the
\* loop started without compaction
C30_Witness ==
    /\ 5 * PreCheckTokens = 4 * ContextWindow
    /\ pc = "stream"
    /\ Compactions = {}

\* the events of this invocation's stream: those after the last streamText
LastStreamText == LET starts == At("streamText")
                  IN  IF starts = {} THEN 0
                      ELSE CHOOSE p \in starts : \A q \in starts : q <= p

\* the onToken calls that hand on a text increment (not the apology)
IsIncrementToken(e) == e.ev = "onToken" /\ e.val # APOLOGY
IncrementTokens == SelectSeq(trace, IsIncrementToken)

\* C22: onToken was called once per text increment, in the order of
\* arrival, before any later chunk of the stream was handled, and the text
\* of this iteration is the concatenation of its increments in that order.
C22_OnTokenOncePerIncrementInOrder ==
    LET last == LastStreamText
        tokens == IncrementTokens
        these == SelectSeq(SubSeq(trace, last + 1, Len(trace)), IsIncrementToken)
        tokenPositions == {p \in (last + 1)..Len(trace) : IsIncrementToken(trace[p])}
        callPositions == {q \in (last + 1)..Len(trace) :
                             trace[q].ev \in {"onToolCallStart", "onToolCallEnd"}}
    IN  /\ Len(tokens) = deltas
        /\ \A k \in 1..Len(tokens) : tokens[k].val = <<ToString(k)>>
        /\ currentText = Flatten([k \in 1..Len(these) |-> these[k].val])
        /\ \A p \in tokenPositions : \A q \in callPositions : p < q

\* C22 witness: the second invocation has streamed two increments and then a
\* tool call
C22_Witness ==
    /\ pc = "stream"
    /\ invocations = 2
    /\ Len(currentText) = 2
    /\ respCalls # <<>>

\* C23: every step of runAgent leaves the messages that are in the
\* conversation state where they are and adds new ones only at the end.
C23_MessagesAreAppendOnly ==
    [][/\ Len(messages') >= Len(messages)
       /\ SubSeq(messages', 1, Len(messages)) = messages]_vars

\* C23 witness: the approval loop has appended two responses and a tool
\* result to the messages it started with
C23_Witness ==
    /\ variant = "hitl"
    /\ pc = "done"
    /\ Len(messages) >= Len(InitialMessages(conversationHistory, userMessage)) + 3
    /\ At("pushResult") # {}

\* the number of tool calls received in the response of invocation n
CallsReceivedIn(n) ==
    LET from == CHOOSE p \in AtFor("streamText", n) : TRUE
    IN Cardinality({q \in At("onToolCallStart") :
                        /\ q > from
                        /\ \A r \in At("streamText") : r > from => q < r})

\* the events by which the loop goes on after a response
GoesOnAfter(p) ==
    \E q \in Positions :
        q > p /\ trace[q].ev \in {"streamText", "execStart", "onToolApproval"}

\* C28 (as claimed): after a response the loop goes on to the tool calls and
\* the next invocation exactly when the finish reason is tool-calls and the
\* response held a tool call; otherwise runAgent ends.
C28_GoesOnOnlyWithToolCalls ==
    \A p \in At("finishReason") :
        IF trace[p].name = "tool-calls" /\ CallsReceivedIn(trace[p].id) >= 1
        THEN pc \in {"call", "tools"} \/ GoesOnAfter(p)
        ELSE pc = "done" /\ ~GoesOnAfter(p)

\* a number between 0 and 1
Within01(x) == x.n >= 0 /\ x.n <= x.d

\* C24 (as claimed): every score of toolSelectionScore lies between 0 and 1.
C24_SelectionScoreWithin01 ==
    score.evaluator = "toolSelectionScore" => Within01(score.value)

\* the tool names the run called
CalledNames == Range(Flatten(steps))

\* C25 (as claimed): toolsAvoided is 0 when a forbidden tool was called in
\* the run and 1 when none was, or when the target names no forbidden tool.
C25_AvoidedIsZeroIffForbiddenToolCalled ==
    score.evaluator = "toolsAvoided" =>
        IF target.forbiddenTools.defined
           /\ Range(target.forbiddenTools.value) \cap CalledNames # {}
        THEN SameNumber(score.value, Zero)
        ELSE SameNumber(score.value, One)

\* whether sub occurs in list as a subsequence, not necessarily consecutive
IsSubsequence(sub, list) ==
    \E at \in [1..Len(sub) -> 1..Len(list)] :
        /\ \A i \in 1..Len(sub) : list[at[i]] = sub[i]
        /\ \A i, j \in 1..Len(sub) : i < j => at[i] < at[j]

\* the length of the longest prefix of expected that is a subsequence of list
LongestPrefixIn(expected, list) ==
    CHOOSE m \in 0..Len(expected) :
        /\ IsSubsequence(SubSeq(expected, 1, m), list)
        /\ \A k \in (m + 1)..Len(expected) : ~IsSubsequence(SubSeq(expected, 1, k), list)

\* C26: toolOrderCorrect is m / len(expectedToolOrder), m the length of the
\* longest prefix of the expected order that is a subsequence of the call
\* order; it is 1 exactly when the whole expected order is one, or when the
\* expected order is empty or absent.
C26_OrderScoreIsLongestPrefixFraction ==
    score.evaluator = "toolOrderCorrect" =>
        LET expected == target.expectedToolOrder.value
            called == Flatten(steps)
        IN
        /\ expected # <<>> =>
            SameNumber(score.value, Frac(LongestPrefixIn(expected, called), Len(expected)))
        /\ SameNumber(score.value, One) <=>
            (expected = <<>> \/ IsSubsequence(expected, called))

\* C26 witness: of the expected order deleteFile, readFile only the first
\* was found, with another call in between
C26_Witness ==
    /\ score.evaluator = "toolOrderCorrect"
    /\ target.expectedToolOrder = Present(<<"deleteFile", "readFile">>)
    /\ Flatten(steps) = <<"readFile", "deleteFile", "deleteFile">>
    /\ SameNumber(score.value, Frac(1, 2))

\* C27 (as claimed): toolCallOrder holds the tool names of all steps in call
\* order, and toolsUsed holds each of these names once and nothing else.
C27_ToolsUsedListsDistinctNames ==
    output.kind = "multi" =>
        /\ output.toolCallOrder = Flatten(steps)
        /\ \A i \in 1..Len(output.toolsUsed) : output.toolsUsed[i].kind = "name"
        /\ {output.toolsUsed[i].name : i \in 1..Len(output.toolsUsed)} = CalledNames
        /\ Len(output.toolsUsed) = Cardinality(CalledNames)

\* the tool failures since the last tool run that did not fail
RECURSIVE FailuresAtEnd(_)
FailuresAtEnd(runs) ==
    IF runs = <<>> \/ ~runs[Len(runs)] THEN 0
    ELSE 1 + FailuresAtEnd(SubSeq(runs, 1, Len(runs) - 1))

\* C31: consecutiveErrors is the number of tool failures since the last
\* successful tool run (0 after a success), and the guard has left the loop
\* exactly when that number exceeds 3: on the 4th failure in a row, never
\* on fewer.
C31_GuardStopsOnFourthFailureInARow ==
    /\ consecutiveErrors = FailuresAtEnd(toolRuns)
    /\ toolRuns # <<>> /\ ~toolRuns[Len(toolRuns)] => consecutiveErrors = 0
    /\ stopped <=> FailuresAtEnd(toolRuns) = 4
    /\ FailuresAtEnd(toolRuns) <= 4

\* C31 witness: a failure, a success, and then four failures in a row have
\* stopped the loop
C31_Witness ==
    /\ stopped
    /\ Len(toolRuns) = 6
    /\ toolRuns[1]
    /\ ~toolRuns[2]

\* the model is invoked for the first time after the pre-check called
\* compactConversation
FirstInvocationAfterCompaction ==
    /\ pc = "stream"
    /\ invocations = 1
    /\ At("compactStart") # {}

\* C32 (as claimed): when compaction was triggered, the messages of the
\* first model invocation are system, user (summary), assistant
\* (acknowledgment), user (new message).
C32_CompactedTurnStartsWithSeedPair ==
    FirstInvocationAfterCompaction =>
        Roles(messages) = <<"system", "user", "assistant", "user">>

\* C32 (amended): when compaction was triggered and the history held a
\* message to summarize, the messages of the first model invocation are
\* system, user (summary), assistant (acknowledgment), user (new message);
\* when the history held none they are system, user (new message). Either
\* way no two neighbours after the system message have the same role, and a
\* summary message is followed by its acknowledgment.
C32_CompactedTurnAlternates ==
    FirstInvocationAfterCompaction =>
        /\ Roles(messages) =
              IF ConversationMessages(CompactionInput) = <<>>
              THEN <<"system", "user">>
              ELSE <<"system", "user", "assistant", "user">>
        /\ \A i \in 2..(Len(messages) - 1) : messages[i].role # messages[i + 1].role
        /\ \A i \in 1..Len(messages) : \A summary \in Summaries :
            messages[i] = CompactedMessages(summary)[1] =>
                /\ i < Len(messages)
                /\ messages[i + 1] = CompactedMessages(summary)[2]

\* C32 witness: the first invocation runs on the seed of a four-message
\* history and the new user message
C32_Witness ==
    /\ FirstInvocationAfterCompaction
    /\ Len(CompactionInput) >= 3
    /\ IsSeed(SubSeq(messages, 2, 3))
    /\ Len(messages) = 4

\* the texts handed to onToken before position p of the trace, in order
TokensBefore(p) ==
    LET tokens == SelectSeq(SubSeq(trace, 1, p - 1), LAMBDA e : e.ev = "onToken")
    IN  [k \in 1..Len(tokens) |-> tokens[k].val]

\* C33 (as claimed): when runAgent returns, the text handed to onComplete is
\* the concatenation, in order, of all the texts handed to onToken during
\* the invocation, over all iterations of the loop.
C33_OnCompleteTextIsAllTokens ==
    pc = "done" =>
        \A p \in At("onComplete") : trace[p].val = Flatten(TokensBefore(p))

\* the calls of the caller's callbacks other than onComplete
CallbackCalls ==
    At("onToken") \cup At("onToolCallStart") \cup At("onToolCallEnd")
        \cup At("onToolApproval")

\* C34: once a runAgent with callbacks has returned, onComplete was called
\* exactly once, after every onToken, onToolCallStart and onToolCallEnd, and
\* nothing but the return came after it; while runAgent has not left its
\* loop, and after it has thrown, onComplete was never called.
C34_OnCompleteOnceAndLast ==
    variant # "first" =>
        /\ pc = "done" =>
            /\ Cardinality(At("onComplete")) = 1
            /\ \A p \in At("onComplete") :
                /\ \A q \in CallbackCalls : q < p
                /\ p = Len(trace) - 1
                /\ trace[Len(trace)].ev = "return"
        /\ pc # "done" => At("onComplete") = {}
        /\ thrown # "none" => pc = "thrown" /\ At("onComplete") = {}

\* C34 witness: runAgent has returned after a streamed text, a tool call
\* and its result
C34_Witness ==
    /\ variant = "run"
    /\ pc = "done"
    /\ At("onToken") # {}
    /\ At("onToolCallStart") # {}
    /\ At("onToolCallEnd") # {}

\* C35 (as claimed): whenever a runAgent that returns its history has
\* returned, the last message of what it returned is an assistant message,
\* whichever way it left the loop (the model stopped asking for tools, an
\* approval was rejected, or the stream failed without text and the apology
\* was used).
C35_ReturnedEndsWithAssistant ==
    (variant # "first" /\ pc = "done") =>
        /\ returned # <<>>
        /\ returned[Len(returned)].role = "assistant"

\* the tool-call requests and the tool-results of a message sequence, as
\* pairs of a position and a toolCallId
RequestsIn(msgs) ==
    UNION {{<<i, msgs[i].content[j].toolCallId>> :
                j \in {k \in 1..Len(msgs[i].content) :
                           msgs[i].content[k].type = "tool-call"}} :
           i \in 1..Len(msgs)}
ResultsIn(msgs) ==
    UNION {{<<i, msgs[i].content[j].toolCallId>> :
                j \in {k \in 1..Len(msgs[i].content) :
                           msgs[i].content[k].type = "tool-result"}} :
           i \in 1..Len(msgs)}

\* C36 (as claimed): what runAgent returns holds no tool-call request without
\* a tool-result of the same toolCallId later in the sequence, whichever way
\* it left the loop, a rejected approval included.
C36_ReturnedHasNoUnansweredRequest ==
    (variant # "first" /\ pc = "done") =>
        \A request \in RequestsIn(returned) :
            \E result \in ResultsIn(returned) :
                /\ result[2] = request[2]
                /\ result[1] > request[1]

\* C37 (as claimed): runAgent does not return, and the final text is not
\* printed, before every tool execution it started has settled, and an
\* exception of a started tool execution reaches runAgent and is never left
\* as an unhandled rejection.
C37_ReturnsAfterItsToolExecutions ==
    /\ \A p \in At("return") \cup AtFor("consoleLog", 0) :
        \A q \in At("execStart") :
            \E r \in Settles : r < p /\ trace[r].id = trace[q].id
    /\ pc = "done" /\ At("return") # {} /\ trace[Len(trace)].ev = "return" => running = {}
    /\ At("unhandledRejection") = {}
    /\ \A p \in At("execThrow") : thrown # "none"

\* C38 (as claimed): every onToolCallEnd comes after an onToolCallStart of
\* the same tool call, and every onToolCallStart is followed by an
\* onToolCallEnd of the same tool call before onComplete is called.
C38_ToolCallStartAndEndArePaired ==
    /\ \A p \in At("onToolCallEnd") :
        \E q \in AtFor("onToolCallStart", trace[p].id) : q < p
    /\ \A c \in At("onComplete") :
        \A q \in At("onToolCallStart") :
            \E p \in AtFor("onToolCallEnd", trace[q].id) : q < p /\ p < c

====
